---------------------------- MODULE Spec2Model ----------------------------
(***************************************************************************)
(* State-machine model of the paralympics REST API                         *)
(* (src/paralympics/routes.py): the region handlers, /register, /login     *)
(* and the token gate in front of PATCH /regions/<code>.                   *)
(*                                                                         *)
(* The store holds what a committed transaction holds.  A handler is one   *)
(* atomic action (one request per thread, one commit per handler); only    *)
(* /register is also given in two steps, lookup then insert, to examine    *)
(* concurrent requests.  A commit fails exactly when a constraint of the   *)
(* store is violated; outages of the store are not modelled.               *)
(***************************************************************************)
EXTENDS Integers, Sequences, FiniteSets, TLC

VARIABLES
    users,      \* the User table, in insertion order (the id is the position)
    regions,    \* the Region table: a set of rows [NOC, notes]
    clock,      \* wall clock, in ticks of 1/TicksPerSecond second
    ticks,      \* number of clock advances so far (bounds the run)
    tok,        \* what the client kept of its last login: token and instant
    resp,       \* the last request handled, with its response
    inflight,   \* per worker: a /register between its lookup and its insert
    deleted     \* codes deleted and not created by POST /regions since

vars == <<users, regions, clock, ticks, tok, resp, inflight, deleted>>

---------------------------------------------------------------------------
(* Bounds of the model *)

\* clock advances in a run of the authentication flow
MaxTicks == 3
\* token lifetimes that elapse in a run of the region handlers
MaxExpiries == 1
\* /register is not called once the table holds this many rows (two emails
\* never fill it; it stops a store without the unique constraint)
MaxUsers == 3
\* threads handling /register at once
NumWorkers == 2
\* resolution of the clock: instants per second
TicksPerSecond == 2

Emails == {"a@x.org", "b@x.org"}
Passwords == {"pw1", "pw2"}
Codes == {"AAA", "BBB"}
Vals == {"v1", "v2"}
Workers == 1..NumWorkers

None == "None"          \* Python None / SQL NULL / absent JSON member
Empty == ""             \* the empty string
Bad == "Bad"            \* a JSON value of the wrong type for its field
NoHeader == [kind |-> "none"]   \* request without an Authorization header
NoToken == [kind |-> "none"]    \* the client holds no token
NoBody == [kind |-> "none"]     \* request whose JSON body is null

Fields == {"NOC", "notes"}

---------------------------------------------------------------------------
(* Program constants *)

SECRET_KEY == "SECRET_KEY"
ForgedKey == "other key"
\* timedelta(minutes=5), in seconds
Lifetime == 5 * 60

---------------------------------------------------------------------------
(* Users and passwords *)

\* User.set_password: the stored value is a hash, never the plaintext
set_password(password) == <<"hash", password>>

\* User.check_password
check_password(user, password) == user.password_hash = set_password(password)

\* db.select(User).filter_by(email=e) ... scalar_one_or_none()
\* (the set of rows found: empty for None)
user_by_email(us, email) == {us[i] : i \in {j \in DOMAIN us : us[j].email = email}}

\* the UNIQUE constraint on User.email, as the INSERT checks it
email_unique(us, email) == \A i \in DOMAIN us : us[i].email # email

---------------------------------------------------------------------------
(* Tokens *)

\* datetime -> JWT NumericDate: whole seconds, the fraction is dropped
numeric_date(t) == t \div TicksPerSecond

\* (variant: timedelta(hours=5) for timedelta(minutes=5))
jwt_encode_hours(user, now, key) ==
    [kind |-> "jwt",
     sub |-> user.id,
     user_id |-> user.id,
     iat |-> numeric_date(now),
     exp |-> numeric_date(now + 60 * Lifetime * TicksPerSecond),
     sig |-> key]

\* jwt.encode(payload={exp, iat, sub}, key, headers={user_id}, HS256)
jwt_encode(user, now, key) ==
    [kind |-> "jwt",
     sub |-> user.id,
     user_id |-> user.id,
     iat |-> numeric_date(now),
     exp |-> numeric_date(now + Lifetime * TicksPerSecond),
     sig |-> key]

\* jwt.decode in the gate: signature intact and current time < expiry
jwt_valid(token, now) ==
    /\ token.kind = "jwt"
    /\ token.sig = SECRET_KEY
    /\ now < token.exp * TicksPerSecond

\* token_required: 401 without a header, 401 for an invalid or expired token
token_required(header, now) ==
    IF header = NoHeader THEN 401
    ELSE IF ~jwt_valid(header, now) THEN 401
    ELSE 200

---------------------------------------------------------------------------
(* Regions: the schema and the store *)

\* db.select(Region).filter_by(NOC=code): the rows found
region_by_code(store, code) == {r \in store : r.NOC = code}

\* region_schema.dump(region)
dump(row) == [NOC |-> row.NOC, notes |-> row.notes]

\* marshmallow validation: a value of the wrong type is rejected, and a
\* load that is not partial requires the primary key
validate(body, partial) ==
    /\ \A f \in DOMAIN body : body[f] # Bad
    /\ partial \/ "NOC" \in DOMAIN body

\* (variant: members the body lacks are reset, as a full load would)
merge_replace(row, body) ==
    [f \in Fields |-> IF f \in DOMAIN body THEN body[f]
                      ELSE IF f = "NOC" THEN row[f] ELSE None]

\* setattr(instance, key, value) for every member of the body
merge(row, body) ==
    [f \in Fields |-> IF f \in DOMAIN body THEN body[f] ELSE row[f]]

\* Region(**data): members the body lacks are NULL
new_row(body) ==
    [f \in Fields |-> IF f \in DOMAIN body THEN body[f] ELSE None]

\* the schema's own lookup of its target when the caller passed none: by
\* the primary key of the body, when the body carries it
get_instance(store, body) ==
    IF "NOC" \in DOMAIN body THEN region_by_code(store, body.NOC) ELSE {}

\* region_schema.load(json, instance=..., partial=...): the target row (if
\* any) and the object handed to the session.  `instance` is the set of
\* rows the caller found (empty for None).
load(store, body, instance, partial) ==
    LET target == IF instance # {} THEN instance ELSE get_instance(store, body)
    IN  IF ~validate(body, partial)
        THEN [ok |-> FALSE, target |-> {}, obj |-> new_row(body)]
        ELSE IF target # {}
        THEN [ok |-> TRUE, target |-> target,
              obj |-> merge(CHOOSE r \in target : TRUE, body)]
        ELSE [ok |-> TRUE, target |-> {}, obj |-> new_row(body)]

\* the PRIMARY KEY constraint on Region.NOC, as a flush checks it: the key
\* is not NULL and no other row has it
primary_key_ok(store, target, obj) ==
    /\ obj.NOC # None
    /\ \A r \in store \ target : r.NOC # obj.NOC

\* db.session.add(obj); db.session.commit(): an UPDATE of the target row
\* or an INSERT
commit(store, target, obj) == (store \ target) \cup {obj}

\* get_region
get_region(store, code) ==
    LET found == region_by_code(store, code)
    IN  IF Cardinality(found) = 1
        THEN [status |-> 200, data |-> dump(CHOOSE r \in found : TRUE)]
        ELSE IF found = {}
        THEN [status |-> 404, data |-> NoBody]
        ELSE [status |-> 500, data |-> NoBody]

\* add_region
add_region(store, body) ==
    LET l == load(store, body, {}, FALSE)
    IN  IF ~l.ok THEN [status |-> 500, store |-> store]
        ELSE IF ~primary_key_ok(store, l.target, l.obj)
        THEN [status |-> 500, store |-> store]
        ELSE [status |-> 200, store |-> commit(store, l.target, l.obj)]

\* delete_region: scalar_one raises unless exactly one row is found
delete_region(store, code) ==
    LET found == region_by_code(store, code)
    IN  IF Cardinality(found) # 1
        THEN [status |-> 500, store |-> store]
        ELSE [status |-> 200, store |-> store \ found]

\* (variant: the handler without @token_required, as event_update is)
update_region_ungated(store, code, body, header, now) ==
    LET existing_region == region_by_code(store, code)
        l == load(store, body, existing_region, TRUE)
    IN  IF ~l.ok THEN [status |-> 500, store |-> store]
        ELSE IF ~primary_key_ok(store, l.target, l.obj)
        THEN [status |-> 500, store |-> store]
        ELSE [status |-> 200, store |-> commit(store, l.target, l.obj)]

\* update_region, behind its gate
update_region(store, code, body, header, now) ==
    IF token_required(header, now) # 200
    THEN [status |-> 401, store |-> store]
    ELSE LET existing_region == region_by_code(store, code)
             l == load(store, body, existing_region, TRUE)
         IN  IF Cardinality(existing_region) > 1
             THEN [status |-> 404, store |-> store]
             ELSE IF ~l.ok THEN [status |-> 500, store |-> store]
             ELSE IF ~primary_key_ok(store, l.target, l.obj)
             THEN [status |-> 500, store |-> store]
             ELSE [status |-> 200, store |-> commit(store, l.target, l.obj)]

---------------------------------------------------------------------------
(* Authentication handlers *)

\* (variant: an email already registered has its password replaced)
register_insert_upsert(us, email, password, user) ==
    IF user = {} /\ email_unique(us, email)
    THEN [status |-> 201,
          users |-> Append(us, [id |-> Len(us) + 1, email |-> email,
                                password_hash |-> set_password(password)])]
    ELSE [status |-> 409,
          users |-> [i \in DOMAIN us |->
                       IF us[i].email = email
                       THEN [us[i] EXCEPT !.password_hash = set_password(password)]
                       ELSE us[i]]]

\* (variant: a plain INSERT that nothing stops)
register_insert_unchecked(us, email, password, user) ==
    IF user = {}
    THEN [status |-> 201,
          users |-> Append(us, [id |-> Len(us) + 1, email |-> email,
                                password_hash |-> set_password(password)])]
    ELSE [status |-> 409, users |-> us]

\* register, after its lookup returned `user` (the rows found): lines
\* 314-339.  The INSERT of the commit fails on a duplicate email and the
\* handler answers 500 for any exception.
register_insert(us, email, password, user) ==
    IF user = {}
    THEN IF email_unique(us, email)
         THEN [status |-> 201,
               users |-> Append(us, [id |-> Len(us) + 1, email |-> email,
                                     password_hash |-> set_password(password)])]
         ELSE [status |-> 500, users |-> us]
    ELSE [status |-> 409, users |-> us]

\* `not auth or not auth.get('email') or not auth.get('password')`
missing_credentials(auth) ==
    \/ auth = NoBody
    \/ auth.email \in {None, Empty}
    \/ auth.password \in {None, Empty}

\* (variant: the password is judged before the account is known to exist)
login_password_first(us, auth, now) ==
    IF missing_credentials(auth) THEN [status |-> 401, token |-> NoToken]
    ELSE LET user == user_by_email(us, auth.email)
         IN  IF \A u \in user : ~check_password(u, auth.password)
             THEN [status |-> 403, token |-> NoToken]
             ELSE [status |-> 201,
                   token |-> jwt_encode(CHOOSE x \in user : TRUE, now, SECRET_KEY)]

\* login
login(us, auth, now) ==
    IF missing_credentials(auth) THEN [status |-> 401, token |-> NoToken]
    ELSE LET user == user_by_email(us, auth.email)
         IN  IF user = {} THEN [status |-> 401, token |-> NoToken]
             ELSE LET u == CHOOSE x \in user : TRUE
                  IN  IF check_password(u, auth.password)
                      THEN [status |-> 201,
                            token |-> jwt_encode(u, now, SECRET_KEY)]
                      ELSE [status |-> 403, token |-> NoToken]

---------------------------------------------------------------------------
(* Requests *)

LoginBodies ==
    {NoBody} \cup [email : Emails \cup {None, Empty},
                   password : Passwords \cup {None, Empty}]

FieldValues(f) == IF f = "NOC" THEN Codes ELSE Vals \cup {Bad}

\* JSON bodies of region requests: any subset of the fields
RegionBodies ==
    UNION {{b \in [S -> Codes \cup Vals \cup {Bad}] :
               \A f \in S : b[f] \in FieldValues(f)} : S \in SUBSET Fields}

\* what a client can send as Authorization: nothing, the token it got from
\* login, or that token signed with another key
Headers ==
    {NoHeader} \cup
    (IF tok.token = NoToken THEN {}
     ELSE {tok.token, [tok.token EXCEPT !.sig = ForgedKey]})

Idle == [pc |-> "idle"]

\* the test suite's registered user (fixture new_user)
new_user == [id |-> 1, email |-> "a@x.org",
             password_hash |-> set_password("pw1")]

Init ==
    /\ users = <<>>
    /\ regions = {}
    /\ clock = 0
    /\ ticks = 0
    /\ tok = [token |-> NoToken, at |-> 0]
    /\ resp = [op |-> "none", status |-> 0]
    /\ inflight = [w \in Workers |-> Idle]
    /\ deleted = {}

\* POST /register handled by one thread with no other request in between
Register(email, password) ==
    LET r == register_insert(users, email, password,
                             user_by_email(users, email))
    IN  /\ Len(users) < MaxUsers
        /\ users' = r.users
        /\ resp' = [op |-> "register", email |-> email,
                    password |-> password, status |-> r.status]
        /\ UNCHANGED <<regions, clock, ticks, tok, inflight, deleted>>

\* POST /register, first step: the lookup of lines 311-313
RegisterLookup(w, email, password) ==
    /\ inflight[w].pc = "idle"
    /\ Len(users) < MaxUsers
    /\ inflight' = [inflight EXCEPT ![w] =
                       [pc |-> "looked", email |-> email,
                        password |-> password,
                        user |-> user_by_email(users, email)]]
    /\ UNCHANGED <<users, regions, clock, ticks, tok, resp, deleted>>

\* POST /register, second step: lines 314-339
RegisterInsert(w) ==
    /\ inflight[w].pc = "looked"
    /\ LET q == inflight[w]
           r == register_insert(users, q.email, q.password, q.user)
       IN  /\ users' = r.users
           /\ resp' = [op |-> "register", email |-> q.email,
                       password |-> q.password, status |-> r.status]
    /\ inflight' = [inflight EXCEPT ![w] = Idle]
    /\ UNCHANGED <<regions, clock, ticks, tok, deleted>>

\* POST /login; the client keeps the token of a successful login
Login(auth) ==
    LET r == login(users, auth, clock)
    IN  /\ resp' = [op |-> "login", auth |-> auth, status |-> r.status,
                    token |-> r.token]
        /\ tok' = IF r.status = 201 THEN [token |-> r.token, at |-> clock]
                  ELSE tok
        /\ UNCHANGED <<users, regions, clock, ticks, inflight, deleted>>

\* GET /regions/<code>
GetRegion(code) ==
    LET r == get_region(regions, code)
    IN  /\ resp' = [op |-> "GET", code |-> code, status |-> r.status,
                    data |-> r.data]
        /\ UNCHANGED <<users, regions, clock, ticks, tok, inflight, deleted>>

\* POST /regions
AddRegion(body) ==
    LET r == add_region(regions, body)
    IN  /\ regions' = r.store
        /\ resp' = [op |-> "POST", body |-> body, status |-> r.status]
        /\ deleted' = IF r.status = 200 THEN deleted \ {body.NOC} ELSE deleted
        /\ UNCHANGED <<users, clock, ticks, tok, inflight>>

\* DELETE /regions/<code>
DeleteRegion(code) ==
    LET r == delete_region(regions, code)
    IN  /\ regions' = r.store
        /\ resp' = [op |-> "DELETE", code |-> code, status |-> r.status]
        /\ deleted' = IF r.status = 200 THEN deleted \cup {code} ELSE deleted
        /\ UNCHANGED <<users, clock, ticks, tok, inflight>>

\* PATCH /regions/<code>
UpdateRegion(code, body, header) ==
    LET r == update_region(regions, code, body, header, clock)
    IN  /\ regions' = r.store
        /\ resp' = [op |-> "PATCH", code |-> code, body |-> body,
                    header |-> header, status |-> r.status]
        /\ UNCHANGED <<users, clock, ticks, tok, inflight, deleted>>

\* time passes
TickSteps == {1, TicksPerSecond, Lifetime * TicksPerSecond - 1}

Tick(d, limit) ==
    /\ ticks < limit
    /\ ticks' = ticks + 1
    /\ clock' = clock + d
    /\ UNCHANGED <<users, regions, tok, resp, inflight, deleted>>

\* the authentication flow: register, log in, present the token at the
\* gate of PATCH /regions/<code> as time passes
Next ==
    \/ \E e \in Emails, p \in Passwords : Register(e, p)
    \/ \E a \in LoginBodies : Login(a)
    \/ \E h \in Headers : UpdateRegion("AAA", [notes |-> "v1"], h)
    \/ \E d \in TickSteps : Tick(d, MaxTicks)

Spec == Init /\ [][Next]_vars

\* the region handlers, with one registered user
InitRegions ==
    /\ users = <<new_user>>
    /\ regions = {}
    /\ clock = 0
    /\ ticks = 0
    /\ tok = [token |-> NoToken, at |-> 0]
    /\ resp = [op |-> "none", status |-> 0]
    /\ inflight = [w \in Workers |-> Idle]
    /\ deleted = {}

NextRegions ==
    \/ Login([email |-> "a@x.org", password |-> "pw1"])
    \/ \E c \in Codes : GetRegion(c)
    \/ \E b \in RegionBodies : AddRegion(b)
    \/ \E c \in Codes : DeleteRegion(c)
    \/ \E c \in Codes, b \in RegionBodies, h \in Headers : UpdateRegion(c, b, h)
    \/ Tick(Lifetime * TicksPerSecond, MaxExpiries)

SpecRegions == InitRegions /\ [][NextRegions]_vars

\* concurrent /register requests, each in two steps
NextRace ==
    \/ \E w \in Workers, e \in Emails, p \in Passwords : RegisterLookup(w, e, p)
    \/ \E w \in Workers : RegisterInsert(w)

SpecRace == Init /\ [][NextRace]_vars

---------------------------------------------------------------------------
(* The step just taken, read off the request recorded in resp' *)

RegisterStep ==
    resp'.op = "register" /\ Register(resp'.email, resp'.password)

LoginStep == resp'.op = "login" /\ Login(resp'.auth)

PatchStep ==
    resp'.op = "PATCH" /\ UpdateRegion(resp'.code, resp'.body, resp'.header)

DeleteStep == resp'.op = "DELETE" /\ DeleteRegion(resp'.code)

---------------------------------------------------------------------------
(* C1 *)

HasEmail(us, email) == \E i \in DOMAIN us : us[i].email = email

\* C1: a POST /register for an email no User has responds 201 and appends
\* exactly one User with that email; a POST /register for an email some
\* User has responds 409 and leaves the user store as it was; and no step
\* removes or modifies a stored User, so every later register for the same
\* email is of the second kind.
C1_RegisterThenConflict ==
    [][/\ RegisterStep =>
             (IF ~HasEmail(users, resp'.email)
              THEN /\ resp'.status = 201
                   /\ Len(users') = Len(users) + 1
                   /\ users'[Len(users')].email = resp'.email
              ELSE /\ resp'.status = 409
                   /\ users' = users)
       /\ \A i \in DOMAIN users : i \in DOMAIN users' /\ users'[i] = users[i]
      ]_vars

\* a second registration of an email, with another password, was refused
C1_Witness ==
    /\ resp.op = "register"
    /\ resp.status = 409
    /\ \E i \in DOMAIN users :
          /\ users[i].email = resp.email
          /\ users[i].password_hash # set_password(resp.password)

---------------------------------------------------------------------------
(* C2 *)

\* C2: the user store holds at most one User per email, whatever the
\* interleaving of the lookups and inserts of concurrent /register requests.
C2_OneUserPerEmail ==
    \A i, j \in DOMAIN users : users[i].email = users[j].email => i = j

\* two requests for one email both looked before either inserted, and
\* both have finished: the second insert failed (500 is answered in no
\* other case)
C2_Witness ==
    /\ resp.op = "register"
    /\ resp.status = 500
    /\ HasEmail(users, resp.email)
    /\ \A w \in Workers : inflight[w].pc = "idle"

---------------------------------------------------------------------------
(* C3 *)

\* the status of a login by the first failing check
LoginExpected(us, a) ==
    IF a = NoBody THEN 401
    ELSE IF a.email \in {None, Empty} \/ a.password \in {None, Empty} THEN 401
    ELSE IF ~HasEmail(us, a.email) THEN 401
    ELSE IF \A i \in DOMAIN us :
               us[i].email = a.email =>
                   us[i].password_hash # set_password(a.password)
         THEN 403
    ELSE 201

\* C3: POST /login responds by the first failing check in the order: body
\* absent or email/password missing or empty -> 401; no User with the email
\* -> 401; password not matching the stored hash -> 403; otherwise 201 with
\* a token.  A token is issued only with 201, and login leaves the user
\* store unchanged.
C3_LoginOrder ==
    [][LoginStep =>
          /\ resp'.status = LoginExpected(users, resp'.auth)
          /\ ((resp'.token # NoToken) <=> (resp'.status = 201))
          /\ users' = users
      ]_vars

\* a login with a registered email and a wrong password was answered 403
C3_Witness ==
    /\ resp.op = "login"
    /\ resp.status = 403
    /\ resp.auth # NoBody
    /\ HasEmail(users, resp.auth.email)

---------------------------------------------------------------------------
(* C4 *)

HoldsToken == tok.token # NoToken

\* C4 as claimed: the token of a login at time t expires at t + 5 minutes:
\* the gate accepts it exactly at the times before t + 5 minutes.
C4_ExpiryIsIssuePlusLifetime ==
    HoldsToken =>
       /\ tok.token.exp * TicksPerSecond = tok.at + Lifetime * TicksPerSecond
       /\ ((token_required(tok.token, clock) = 200)
               <=> (clock < tok.at + Lifetime * TicksPerSecond))

\* C4, amended: the token of a login at time t carries as expiry t + 5
\* minutes cut down to a whole second, and as subject the id of the User
\* who logged in; a PATCH carrying it passes the gate at every time before
\* that expiry and is answered 401 at every time at or after it, in
\* particular from t + 5 min + 1 s on; once rejected as expired the token
\* is rejected for ever.
C4_ExpiryTruncated ==
    [][/\ (LoginStep /\ resp'.status = 201) =>
             (/\ tok'.at = clock
              /\ tok'.token = resp'.token
              /\ tok'.token.exp = (clock \div TicksPerSecond) + Lifetime
              /\ \E i \in DOMAIN users :
                    /\ users[i].email = resp'.auth.email
                    /\ tok'.token.sub = users[i].id)
       /\ (PatchStep /\ HoldsToken /\ resp'.header = tok.token) =>
             (/\ ((resp'.status = 401)
                     <=> (clock >= tok.token.exp * TicksPerSecond))
              /\ (clock >= tok.at + (Lifetime + 1) * TicksPerSecond
                     => resp'.status = 401))
       /\ (HoldsToken /\ tok' = tok /\ token_required(tok.token, clock) = 401
             => token_required(tok.token, clock') = 401)
      ]_vars

\* a token issued part-way through a second was presented, and refused,
\* less than 5 minutes after the login
C4_Witness ==
    /\ HoldsToken
    /\ tok.at % TicksPerSecond # 0
    /\ resp.op = "PATCH"
    /\ resp.header = tok.token
    /\ resp.status = 401
    /\ clock < tok.at + Lifetime * TicksPerSecond

---------------------------------------------------------------------------
(* Region claims *)

NOCs(store) == {r.NOC : r \in store}

\* the header is a token the gate accepts now
Authorized(header) == token_required(header, clock) = 200

\* C5: a PATCH /regions/<code> without an Authorization header responds
\* 401 and leaves the region store unchanged, for every code, in the store
\* or not, and every body.
C5_NoHeaderNoChange ==
    [][(PatchStep /\ resp'.header = NoHeader) =>
          (/\ resp'.status = 401
           /\ regions' = regions)
      ]_vars

\* a well-formed PATCH of a stored region, sent without a header, was
\* refused
C5_Witness ==
    /\ resp.op = "PATCH"
    /\ resp.header = NoHeader
    /\ resp.status = 401
    /\ resp.code \in NOCs(regions)
    /\ validate(resp.body, TRUE)
    /\ \E r \in regions : r.NOC = resp.code /\ \E f \in DOMAIN resp.body : r[f] # resp.body[f]

\* C6: a PATCH /regions/c of a stored region c, with an unexpired token of
\* a login and a body that passes validation, responds 200, and the next
\* GET /regions/c returns the value sent for every field of the body.
C6_PatchThenGet ==
    [][(/\ PatchStep
         /\ Authorized(resp'.header)
         /\ resp'.code \in NOCs(regions)
         /\ validate(resp'.body, TRUE))
        => /\ resp'.status = 200
           /\ get_region(regions', resp'.code).status = 200
           /\ \A f \in DOMAIN resp'.body :
                 get_region(regions', resp'.code).data[f] = resp'.body[f]
      ]_vars

\* C7: DELETE /regions/c of a stored region responds 200 and removes
\* exactly the row keyed c; from then on GET /regions/c responds 404 until
\* a POST /regions creates a region with code c.
C7_DeletedStaysGone ==
    [][/\ (DeleteStep /\ resp'.code \in NOCs(regions)) =>
             (/\ resp'.status = 200
              /\ regions' = {r \in regions : r.NOC # resp'.code})
       /\ \A d \in deleted' : get_region(regions', d).status = 404
      ]_vars

\* C8: an authorized PATCH /regions/c for a code c not in the store
\* responds 404 and leaves the region store unchanged.
C8_PatchMissingIs404 ==
    [][(/\ PatchStep
         /\ Authorized(resp'.header)
         /\ resp'.code \notin NOCs(regions))
        => /\ resp'.status = 404
           /\ regions' = regions
      ]_vars

\* C9: the store holds at most one Region per NOC code, and an authorized
\* PATCH of a stored region, whatever its body, leaves the set of NOC codes
\* in the store unchanged.
C9_NOCImmutable ==
    [][/\ \A r1, r2 \in regions' : r1.NOC = r2.NOC => r1 = r2
       /\ (/\ PatchStep
            /\ Authorized(resp'.header)
            /\ resp'.code \in NOCs(regions))
           => NOCs(regions') = NOCs(regions)
      ]_vars

\* C10: an authorized PATCH of a stored region c changes only the fields
\* named in the body: the row keeps its value in every field the body
\* lacks and every other row is as before; and when the body fails
\* validation or the commit fails, the response is 500 and no row changes.
C10_PatchFrame ==
    [][(/\ PatchStep
         /\ Authorized(resp'.header)
         /\ resp'.code \in NOCs(regions))
        => LET row == CHOOSE r \in regions : r.NOC = resp'.code
               b == resp'.body
           IN  /\ resp'.status \in {200, 500}
               /\ (~validate(b, TRUE) => resp'.status = 500)
               /\ (resp'.status = 500 => regions' = regions)
               /\ (resp'.status = 200 =>
                     \E new \in regions' :
                        /\ regions' \ {new} = regions \ {row}
                        /\ \A f \in Fields \ DOMAIN b : new[f] = row[f]
                        /\ \A f \in DOMAIN b : new[f] = b[f])
      ]_vars

\* a PATCH that names only `notes` was applied to a row with notes, beside
\* another row
C10_Witness ==
    /\ resp.op = "PATCH"
    /\ resp.status = 200
    /\ DOMAIN resp.body = {"notes"}
    /\ Cardinality(regions) = 2
    /\ \A r \in regions : r.notes # None
    /\ \E r \in regions : r.NOC = resp.code /\ r.notes = resp.body.notes

=============================================================================
